---- MODULE Spec2Model ----
(***************************************************************************)
(* Model of 0x02-redis_basic: exercise.py (Cache, count_calls,             *)
(* call_history, replay) and web.py (count_access, cache_result,           *)
(* get_page), both running against one Redis database.                     *)
(*                                                                         *)
(* Every Redis command is one atomic step; a Python call is a sequence of  *)
(* such steps carried out by a caller thread.                              *)
(***************************************************************************)
EXTENDS Integers, Sequences, FiniteSets, TLC

\* ---------------------------------------------------------------- bounds
NThreads == 2
MaxInst == 2
MaxStoreCalls == 2
MaxAccess == 2
MaxLatency == 2

\* ------------------------------------------------------ program constants
\* web.py: @cache_result(expire=10)
expire == 10

\* ------------------------------------------------------------ Python values
\* A Python value is a tagged record; v is always the textual content.
PyStr(s) == [ty |-> "str", v |-> s]
PyBytes(s) == [ty |-> "bytes", v |-> s]
PyInt(s) == [ty |-> "int", v |-> s]
PyFloat(s) == [ty |-> "float", v |-> s]
NoneVal == [ty |-> "none", v |-> ""]

\* Values a caller passes to Cache.store.  None is outside the annotation
\* Union[str, bytes, int, float]; the client rejects it (DataError).
StoreData == {PyStr("abc"), PyBytes("42"), PyInt("42"), NoneVal}

\* repr() of a Python value
PyRepr(d) ==
    CASE d.ty = "str" -> "'" \o d.v \o "'"
      [] d.ty = "bytes" -> "b'" \o d.v \o "'"
      [] d.ty = "none" -> "None"
      [] OTHER -> d.v

\* str(args) for args = (data,)       exercise.py:37
StrArgs(d) == "(" \o PyRepr(d) \o ",)"

\* str(result)                        exercise.py:39
StrResult(d) == IF d.ty = "str" THEN d.v ELSE PyRepr(d)

\* variant: the repr of the value is stored
EncodeRepr(d) == PyRepr(d)

\* the client's encoding of a command argument to the bytes Redis stores
Encodable(d) == d.ty \in {"str", "bytes", "int", "float"}
Encode(d) == d.v

\* bytes.decode('utf-8')
DecodeUtf8(b) == PyStr(b.v)

\* ------------------------------------------------------------------ keys
\* method.__qualname__ of Cache.store (functools.wraps keeps it through
\* both decorators)
QualName == "Cache.store"
InputsKey == QualName \o ":inputs"
OutputsKey == QualName \o ":outputs"

\* str(uuid.uuid4()): a pool of identifiers, never drawn twice.  Which
\* identifier a call draws is immaterial, so the pool is taken in order.
KeyPool == {"k" \o ToString(n) : n \in 1..MaxStoreCalls}
\* variant: the same identifier every time
Uuid4Fixed(drawn) == "k1"
Uuid4(drawn) == "k" \o ToString(Cardinality(drawn) + 1)

CountKey(url) == "count:" \o url
\* urls a caller may ask for: a web address, and the text that is also the
\* name of that address's counter key
HttpURLs == {"http://a"}
URLs == HttpURLs \cup {CountKey(u) : u \in HttpURLs}
\* requests mounts transport adapters for http:// and https:// only
HasAdapter(url) == url \in HttpURLs

\* bodies the HTTP server can answer with
Bodies == {"", "<html>"}

\* ----------------------------------------------------------------- Redis
\* The database maps present keys to entries.  ttl = 0: no expiry.
StringEntry(s, ttl) == [kind |-> "string", val |-> s, ttl |-> ttl]
ListEntry(q) == [kind |-> "list", val |-> q, ttl |-> 0]

EmptyDb == [k \in {} |-> StringEntry("", 0)]

Put(d, k, e) == [x \in DOMAIN d \cup {k} |-> IF x = k THEN e ELSE d[x]]

\* decimal integers, as Redis INCR and Python int() read them
Numbers == 0..9 \cup {42}
\* variant: any text is taken for a number
IsIntegerAny(s) == TRUE
IsInteger(s) == \E n \in Numbers : ToString(n) = s
ParseInt(s) == CHOOSE n \in Numbers : ToString(n) = s

\* INCR key
RedisIncrOk(d, k) ==
    k \in DOMAIN d => (d[k].kind = "string" /\ IsInteger(d[k].val))

\* variant: the counter is written, not incremented
RedisIncrLost(d, k) == Put(d, k, StringEntry("1", 0))

RedisIncr(d, k) ==
    IF k \in DOMAIN d
    THEN Put(d, k, StringEntry(ToString(ParseInt(d[k].val) + 1), d[k].ttl))
    ELSE Put(d, k, StringEntry("1", 0))

\* GET key
RedisGetOk(d, k) == k \in DOMAIN d => d[k].kind = "string"

\* variant: an absent key reads as empty bytes
RedisGetEmpty(d, k) == IF k \in DOMAIN d THEN PyBytes(d[k].val) ELSE PyBytes("")

RedisGet(d, k) == IF k \in DOMAIN d THEN PyBytes(d[k].val) ELSE NoneVal

\* SET key value
RedisSet(d, k, s) == Put(d, k, StringEntry(s, 0))

\* variant: SET where SETEX was meant, the entry never expires
RedisSetexPersist(d, k, seconds, s) == Put(d, k, StringEntry(s, 0))

\* SETEX key seconds value
RedisSetex(d, k, seconds, s) == Put(d, k, StringEntry(s, seconds))

\* RPUSH key value
RedisRpushOk(d, k) == k \in DOMAIN d => d[k].kind = "list"

\* variant: LPUSH where RPUSH was meant
RedisLpush(d, k, s) ==
    IF k \in DOMAIN d
    THEN Put(d, k, ListEntry(<<s>> \o d[k].val))
    ELSE Put(d, k, ListEntry(<<s>>))

RedisRpush(d, k, s) ==
    IF k \in DOMAIN d
    THEN Put(d, k, ListEntry(Append(d[k].val, s)))
    ELSE Put(d, k, ListEntry(<<s>>))

\* variant: LRANGE key 1 -1
RedisLrangeFrom1(d, k) ==
    IF k \in DOMAIN d /\ d[k].val # <<>> THEN Tail(d[k].val) ELSE <<>>

\* LRANGE key 0 -1
RedisLrange(d, k) == IF k \in DOMAIN d THEN d[k].val ELSE <<>>

\* variant: only the string keys are deleted, the lists stay
RedisFlushStrings(d) ==
    [k \in {x \in DOMAIN d : d[x].kind = "list"} |-> d[k]]

\* FLUSHDB
RedisFlushdb(d) == EmptyDb

\* one second passes in the server: ttls count down, expired keys vanish
RedisExpire(d) ==
    LET live == {k \in DOMAIN d : d[k].ttl # 1}
    IN [k \in live |-> IF d[k].ttl = 0 THEN d[k]
                       ELSE [d[k] EXCEPT !.ttl = d[k].ttl - 1]]

\* ----------------------------------------------------------------- state
VARIABLES
    db,           \* the Redis database
    ninst,        \* number of Cache instances constructed so far
    issued,       \* uuids drawn so far
    th,           \* per caller thread: the call in progress / last finished
    g_calls,      \* history: the store calls since the last flush
    g_storeCalls, \* history: store calls made on each instance, ever
    g_access,     \* history: get_page calls per url since the last flush
    g_page        \* history: per url, when its page entry was last written

vars == <<db, ninst, issued, th, g_calls, g_storeCalls, g_access, g_page>>

Threads == 1..NThreads
Insts == 1..MaxInst

\* the single caller of the sequential specification
Main == 1

Pending == [ty |-> "pending", v |-> ""]
NoWrite == [since |-> -1, lat |-> 0, by |-> 0]

Idle ==
    [op |-> "none", pc |-> "idle", inst |-> 0, arg |-> NoneVal, fn |-> "none",
     key |-> "", res |-> NoneVal, ret |-> NoneVal, exc |-> "",
     inputs |-> <<>>, printed |-> <<>>,
     in0 |-> <<>>, out0 |-> <<>>, cnt0 |-> 0,
     cached |-> NoneVal, fetched |-> FALSE, applied |-> FALSE,
     status |-> 0, elapsed |-> 0, age |-> -1, since |-> -1, idx |-> 0]

Ready(t) == th[t].pc \in {"idle", "done"}

Init ==
    /\ db = EmptyDb
    /\ ninst = 0
    /\ issued = {}
    /\ th = [t \in Threads |-> Idle]
    /\ g_calls = <<>>
    /\ g_storeCalls = [i \in Insts |-> 0]
    /\ g_access = [u \in URLs |-> 0]
    /\ g_page = [u \in URLs |-> NoWrite]

\* value of a counter key as the number it holds (0 when absent)
CounterValue(d, k) == IF k \in DOMAIN d THEN ParseInt(d[k].val) ELSE 0

Min(a, b) == IF a < b THEN a ELSE b

RECURSIVE SumTo(_, _)
SumTo(f, n) == IF n = 0 THEN 0 ELSE f[n] + SumTo(f, n - 1)
TotalStoreCalls == SumTo(g_storeCalls, MaxInst)

Raise(r, e) == [r EXCEPT !.pc = "done", !.exc = e]

\* --------------------------------------------------------- Cache.__init__
\* exercise.py:50-56   redis.Redis(); flushdb()
Construct(t) ==
    /\ Ready(t)
    /\ ninst < MaxInst
    /\ ninst' = ninst + 1
    /\ db' = RedisFlushdb(db)
    /\ th' = [th EXCEPT ![t] = [Idle EXCEPT !.op = "init", !.pc = "done",
                                            !.inst = ninst + 1]]
    /\ g_calls' = <<>>
    /\ g_access' = [u \in URLs |-> 0]
    /\ g_page' = [u \in URLs |-> NoWrite]
    /\ UNCHANGED <<issued, g_storeCalls>>

\* ------------------------------------------------------------ Cache.store
\* variant: the wrapper calls the method without recording the input
StoreCallSkipsInput(t, i, d) ==
    /\ Ready(t)
    /\ i \in 1..ninst
    /\ TotalStoreCalls < MaxStoreCalls
    /\ th' = [th EXCEPT ![t] =
                [Idle EXCEPT !.op = "store", !.inst = i, !.arg = d,
                             !.in0 = RedisLrange(db, InputsKey),
                             !.out0 = RedisLrange(db, OutputsKey),
                             !.cnt0 = CounterValue(db, QualName),
                             !.idx = Len(g_calls) + 1, !.pc = "count"]]
    /\ g_calls' = Append(g_calls, [inst |-> i, data |-> d, ret |-> Pending])
    /\ g_storeCalls' = [g_storeCalls EXCEPT ![i] = @ + 1]
    /\ UNCHANGED <<db, ninst, issued, g_access, g_page>>

\* call_history.wrapper, exercise.py:33-37: rpush(input_key, str(args))
StoreCall(t, i, d) ==
    /\ Ready(t)
    /\ i \in 1..ninst
    /\ TotalStoreCalls < MaxStoreCalls
    /\ LET r == [Idle EXCEPT !.op = "store", !.inst = i, !.arg = d,
                             !.in0 = RedisLrange(db, InputsKey),
                             !.out0 = RedisLrange(db, OutputsKey),
                             !.cnt0 = CounterValue(db, QualName),
                             !.idx = Len(g_calls) + 1]
       IN IF RedisRpushOk(db, InputsKey)
          THEN /\ db' = RedisRpush(db, InputsKey, StrArgs(d))
               /\ th' = [th EXCEPT ![t] = [r EXCEPT !.pc = "count"]]
          ELSE /\ db' = db
               /\ th' = [th EXCEPT ![t] = Raise(r, "ResponseError")]
    /\ g_calls' = Append(g_calls, [inst |-> i, data |-> d, ret |-> Pending])
    /\ g_storeCalls' = [g_storeCalls EXCEPT ![i] = @ + 1]
    /\ UNCHANGED <<ninst, issued, g_access, g_page>>

SetRet(calls, r, v) ==
    IF r.idx \in 1..Len(calls) /\ calls[r.idx].ret = Pending
    THEN [calls EXCEPT ![r.idx].ret = v]
    ELSE calls

\* variant: the wrapper calls the method without counting
StoreIncrSkip(t) ==
    /\ th[t].pc = "count"
    /\ th' = [th EXCEPT ![t].pc = "body"]
    /\ UNCHANGED <<db, ninst, issued, g_calls, g_storeCalls, g_access, g_page>>

\* variant: the counter is read when the call starts and written back plus one
StoreIncrStale(t) ==
    /\ th[t].pc = "count"
    /\ db' = Put(db, QualName, StringEntry(ToString(th[t].cnt0 + 1), 0))
    /\ th' = [th EXCEPT ![t].pc = "body"]
    /\ UNCHANGED <<ninst, issued, g_calls, g_storeCalls, g_access, g_page>>

\* count_calls.wrapper, exercise.py:20-22: incr(method.__qualname__)
StoreIncr(t) ==
    /\ th[t].pc = "count"
    /\ IF RedisIncrOk(db, QualName)
       THEN /\ db' = RedisIncr(db, QualName)
            /\ th' = [th EXCEPT ![t].pc = "body"]
            /\ g_calls' = g_calls
       ELSE /\ db' = db
            /\ th' = [th EXCEPT ![t] = Raise(@, "ResponseError")]
            /\ g_calls' = SetRet(g_calls, th[t], [ty |-> "raised", v |-> ""])
    /\ UNCHANGED <<ninst, issued, g_storeCalls, g_access, g_page>>

\* variant: the output is recorded in a finally clause, also when set raises
StoreBodyLogsFailure(t) ==
    /\ th[t].pc = "body"
    /\ LET k == Uuid4(issued) IN
         /\ issued' = issued \cup {k}
         /\ IF Encodable(th[t].arg)
            THEN /\ db' = RedisSet(db, k, Encode(th[t].arg))
                 /\ th' = [th EXCEPT ![t].pc = "record", ![t].key = k,
                                     ![t].res = PyStr(k)]
                 /\ g_calls' = g_calls
            ELSE /\ db' = RedisRpush(db, OutputsKey, StrResult(NoneVal))
                 /\ th' = [th EXCEPT ![t] = Raise([@ EXCEPT !.key = k],
                                                  "DataError")]
                 /\ g_calls' = SetRet(g_calls, th[t],
                                      [ty |-> "raised", v |-> ""])
    /\ UNCHANGED <<ninst, g_storeCalls, g_access, g_page>>

\* Cache.store body, exercise.py:70-72: key = str(uuid4()); set(key, data)
StoreBody(t) ==
    /\ th[t].pc = "body"
    /\ LET k == Uuid4(issued) IN
         /\ issued' = issued \cup {k}
         /\ IF Encodable(th[t].arg)
            THEN /\ db' = RedisSet(db, k, Encode(th[t].arg))
                 /\ th' = [th EXCEPT ![t].pc = "record", ![t].key = k,
                                     ![t].res = PyStr(k)]
                 /\ g_calls' = g_calls
            ELSE /\ db' = db
                 /\ th' = [th EXCEPT ![t] = Raise([@ EXCEPT !.key = k],
                                                  "DataError")]
                 /\ g_calls' = SetRet(g_calls, th[t],
                                      [ty |-> "raised", v |-> ""])
    /\ UNCHANGED <<ninst, g_storeCalls, g_access, g_page>>

\* variant: the outputs list is rewritten from the copy read when the call
\* started, with the result added
StoreRecordStale(t) ==
    /\ th[t].pc = "record"
    /\ db' = Put(db, OutputsKey,
                 ListEntry(Append(th[t].out0, StrResult(th[t].res))))
    /\ th' = [th EXCEPT ![t].pc = "done", ![t].ret = th[t].res]
    /\ g_calls' = SetRet(g_calls, th[t], th[t].res)
    /\ UNCHANGED <<ninst, issued, g_storeCalls, g_access, g_page>>

\* call_history.wrapper, exercise.py:39-40: rpush(output_key, str(result))
StoreRecord(t) ==
    /\ th[t].pc = "record"
    /\ IF RedisRpushOk(db, OutputsKey)
       THEN /\ db' = RedisRpush(db, OutputsKey, StrResult(th[t].res))
            /\ th' = [th EXCEPT ![t].pc = "done", ![t].ret = th[t].res]
            /\ g_calls' = SetRet(g_calls, th[t], th[t].res)
       ELSE /\ db' = db
            /\ th' = [th EXCEPT ![t] = Raise(@, "ResponseError")]
            /\ g_calls' = SetRet(g_calls, th[t], [ty |-> "raised", v |-> ""])
    /\ UNCHANGED <<ninst, issued, g_storeCalls, g_access, g_page>>

\* -------------------------------------------------------------- Cache.get
\* keys a caller may ask for
GetKeys == KeyPool \cup {QualName, InputsKey}
\* fn: None, lambda d: d.decode('utf-8') (get_str), int (get_int)
Decoders == {"none", "utf8", "int"}

\* exercise.py:85-88
\* (all instances talk to the same database: which one is asked is immaterial)
Get(t, k, fn) ==
    /\ Ready(t)
    /\ ninst > 0
    /\ LET r == [Idle EXCEPT !.op = "get", !.key = k, !.fn = fn]
           value == RedisGet(db, k)
       IN th' = [th EXCEPT ![t] =
            IF ~RedisGetOk(db, k) THEN Raise(r, "ResponseError")
            ELSE IF value = NoneVal
              THEN [r EXCEPT !.pc = "done", !.ret = NoneVal]
            ELSE IF fn = "none"
              THEN [r EXCEPT !.pc = "done", !.ret = value, !.cached = value]
            ELSE IF fn = "utf8"
              THEN [r EXCEPT !.pc = "done", !.ret = DecodeUtf8(value),
                             !.cached = value, !.applied = TRUE]
            ELSE IF IsInteger(value.v)
              THEN [r EXCEPT !.pc = "done", !.ret = PyInt(value.v),
                             !.cached = value, !.applied = TRUE]
            ELSE [Raise(r, "ValueError") EXCEPT !.cached = value,
                                                !.applied = TRUE]]
    /\ UNCHANGED <<db, ninst, issued, g_calls, g_storeCalls, g_access, g_page>>

\* ----------------------------------------------------------------- replay
Header(n) == QualName \o " was called " \o ToString(n) \o " times:"
\* variant: input and output change places in the printed line
LineSwapped(inp, out) == QualName \o "(*" \o out \o ") -> " \o inp
Line(inp, out) == QualName \o "(*" \o inp \o ") -> " \o out
Zip(ins, outs) ==
    [j \in 1..Min(Len(ins), Len(outs)) |-> Line(ins[j], outs[j])]

\* exercise.py:122-124: inputs = r.lrange(f"{name}:inputs", 0, -1)
ReplayInputs(t) ==
    /\ Ready(t)
    /\ ninst > 0
    /\ th' = [th EXCEPT ![t] = [Idle EXCEPT !.op = "replay",
                     !.pc = "outputs",
                     !.inputs = RedisLrange(db, InputsKey)]]
    /\ UNCHANGED <<db, ninst, issued, g_calls, g_storeCalls, g_access, g_page>>

\* exercise.py:125-129: outputs = r.lrange(...); print header and pairs
ReplayOutputs(t) ==
    /\ th[t].pc = "outputs"
    /\ LET outputs == RedisLrange(db, OutputsKey)
       IN th' = [th EXCEPT ![t].pc = "done",
                    ![t].printed = <<Header(Len(th[t].inputs))>>
                                   \o Zip(th[t].inputs, outputs)]
    /\ UNCHANGED <<db, ninst, issued, g_calls, g_storeCalls, g_access, g_page>>

\* --------------------------------------------------------------- get_page
\* Python truthiness of r.get's result: None and b"" are false
Truthy(value) == value # NoneVal /\ value.v # ""

\* HTTP status codes the server can answer with
Statuses == {200, 404}

\* count_access.wrapper, web.py:23-24: r.incr(f"count:{url}")
PageCall(t, url) ==
    /\ Ready(t)
    /\ g_access[url] < MaxAccess
    /\ LET r == [Idle EXCEPT !.op = "get_page", !.key = url,
                             !.cnt0 = CounterValue(db, CountKey(url))]
       IN IF RedisIncrOk(db, CountKey(url))
          THEN /\ db' = RedisIncr(db, CountKey(url))
               /\ th' = [th EXCEPT ![t] = [r EXCEPT !.pc = "lookup"]]
          ELSE /\ db' = db
               /\ th' = [th EXCEPT ![t] = Raise(r, "ResponseError")]
    /\ g_access' = [g_access EXCEPT ![url] = @ + 1]
    /\ UNCHANGED <<ninst, issued, g_calls, g_storeCalls, g_page>>

\* variant: a hit writes the entry back, which starts its TTL again
PageLookupRefreshes(t) ==
    /\ th[t].pc = "lookup"
    /\ LET url == th[t].key
           cached == RedisGet(db, url)
           r == [th[t] EXCEPT !.cached = cached,
                              !.since = g_page[url].since,
                              !.age = IF g_page[url] = NoWrite THEN -1
                                      ELSE g_page[url].since + g_page[url].lat]
       IN IF RedisGetOk(db, url) /\ Truthy(cached)
          THEN /\ db' = RedisSetex(db, url, expire, cached.v)
               /\ th' = [th EXCEPT ![t] =
                           [r EXCEPT !.pc = "done", !.ret = DecodeUtf8(cached)]]
          ELSE /\ db' = db
               /\ th' = [th EXCEPT ![t] =
                           IF ~RedisGetOk(db, url)
                           THEN Raise(r, "ResponseError")
                           ELSE [r EXCEPT !.pc = "fetch"]]
    /\ UNCHANGED <<ninst, issued, g_calls, g_storeCalls, g_access, g_page>>

\* cache_result.wrapper, web.py:36-39: cached = r.get(url); if cached: ...
PageLookup(t) ==
    /\ th[t].pc = "lookup"
    /\ LET url == th[t].key
           cached == RedisGet(db, url)
           r == [th[t] EXCEPT !.cached = cached,
                              !.since = g_page[url].since,
                              !.age = IF g_page[url] = NoWrite THEN -1
                                      ELSE g_page[url].since + g_page[url].lat]
       IN th' = [th EXCEPT ![t] =
            IF ~RedisGetOk(db, url) THEN Raise(r, "ResponseError")
            ELSE IF Truthy(cached)
              THEN [r EXCEPT !.pc = "done", !.ret = DecodeUtf8(cached)]
            ELSE [r EXCEPT !.pc = "fetch"]]
    /\ UNCHANGED <<db, ninst, issued, g_calls, g_storeCalls, g_access, g_page>>

\* variant: a failed request is cached as an error page before raising
PageFetchCachesError(t) ==
    /\ th[t].pc = "fetch"
    /\ \/ /\ th' = [th EXCEPT ![t] = Raise([@ EXCEPT !.fetched = TRUE],
                                           "RequestException")]
          /\ db' = RedisSetex(db, th[t].key, expire, "error")
       \/ /\ HasAdapter(th[t].key)
          /\ db' = db
          /\ \E code \in Statuses, body \in Bodies :
               th' = [th EXCEPT ![t].pc = "setex", ![t].fetched = TRUE,
                                ![t].status = code, ![t].res = PyStr(body)]
    /\ UNCHANGED <<ninst, issued, g_calls, g_storeCalls, g_access, g_page>>

\* get_page body, web.py:60-61: response = requests.get(url); response.text
\* The request raises (no adapter, connection error, timeout) or answers
\* with some status and body; the status is not looked at.
PageFetch(t) ==
    /\ th[t].pc = "fetch"
    /\ \/ th' = [th EXCEPT ![t] = Raise([@ EXCEPT !.fetched = TRUE],
                                        "RequestException")]
       \/ /\ HasAdapter(th[t].key)
          /\ \E code \in Statuses, body \in Bodies :
               th' = [th EXCEPT ![t].pc = "setex", ![t].fetched = TRUE,
                                ![t].status = code, ![t].res = PyStr(body)]
    /\ UNCHANGED <<db, ninst, issued, g_calls, g_storeCalls, g_access, g_page>>

\* variant: the entry is written only when the key is absent
PageSetexFirstWins(t) ==
    /\ th[t].pc = "setex"
    /\ db' = IF th[t].key \in DOMAIN db THEN db
             ELSE RedisSetex(db, th[t].key, expire, Encode(th[t].res))
    /\ th' = [th EXCEPT ![t].pc = "done", ![t].ret = th[t].res]
    /\ g_page' = [g_page EXCEPT ![th[t].key] =
                     [since |-> 0, lat |-> th[t].elapsed, by |-> t]]
    /\ UNCHANGED <<ninst, issued, g_calls, g_storeCalls, g_access>>

\* cache_result.wrapper, web.py:41-42: r.setex(url, expire, result)
PageSetex(t) ==
    /\ th[t].pc = "setex"
    /\ db' = RedisSetex(db, th[t].key, expire, Encode(th[t].res))
    /\ th' = [th EXCEPT ![t].pc = "done", ![t].ret = th[t].res]
    /\ g_page' = [g_page EXCEPT ![th[t].key] =
                     [since |-> 0, lat |-> th[t].elapsed, by |-> t]]
    /\ UNCHANGED <<ninst, issued, g_calls, g_storeCalls, g_access>>

\* ------------------------------------------------------------------- time
InFlight(t) == th[t].op = "get_page" /\ ~Ready(t)

\* one second passes
Tick ==
    /\ \A t \in Threads : InFlight(t) => th[t].elapsed < MaxLatency
    /\ db' = RedisExpire(db)
    /\ th' = [t \in Threads |->
                IF InFlight(t) THEN [th[t] EXCEPT !.elapsed = @ + 1]
                ELSE th[t]]
    /\ g_page' = [u \in URLs |->
                    IF g_page[u] = NoWrite \/ g_page[u].since >= expire
                    THEN g_page[u]
                    ELSE [g_page[u] EXCEPT !.since = @ + 1]]
    /\ UNCHANGED <<ninst, issued, g_calls, g_storeCalls, g_access>>

\* ---------------------------------------------------------- specification
\* steps of caller t in exercise.py, storing values from data
CacheStep(t, data) ==
    \/ Construct(t)
    \/ \E i \in Insts, d \in data : StoreCall(t, i, d)
    \/ StoreIncr(t)
    \/ StoreBody(t)
    \/ StoreRecord(t)
    \/ \E k \in GetKeys, fn \in Decoders : Get(t, k, fn)
    \/ ReplayInputs(t)
    \/ ReplayOutputs(t)

\* steps of caller t in web.py, asking for urls from urls
WebStep(t, urls) ==
    \/ \E url \in urls : PageCall(t, url)
    \/ PageLookup(t)
    \/ PageFetch(t)
    \/ PageSetex(t)

\* exercise.py, one caller at a time
NextCache == CacheStep(Main, StoreData)
SpecCache == Init /\ [][NextCache]_vars

\* web.py, one caller at a time, while seconds pass and Cache instances
\* are constructed on the same database
NextWeb == WebStep(Main, URLs) \/ Construct(Main) \/ Tick
SpecWeb == Init /\ [][NextWeb]_vars

\* both programs on the same database, one caller at a time, within one
\* second; one value that Redis accepts and one that it rejects are stored
NextAll == CacheStep(Main, {PyInt("42"), NoneVal}) \/ WebStep(Main, HttpURLs)
SpecAll == Init /\ [][NextAll]_vars

\* the state after one Cache() on an empty database: flushed, one instance
InitOne ==
    /\ db = EmptyDb
    /\ ninst = 1
    /\ issued = {}
    /\ th = [t \in Threads |-> Idle]
    /\ g_calls = <<>>
    /\ g_storeCalls = [i \in Insts |-> 0]
    /\ g_access = [u \in URLs |-> 0]
    /\ g_page = [u \in URLs |-> NoWrite]

\* values stored by concurrent callers: one Redis accepts, one it rejects
ConcData == {PyStr("abc"), NoneVal}

\* concurrent callers of one operation, their Redis commands interleaved in
\* any order, within one second: in a run either all callers call store or
\* all call get_page
NextConc ==
    \E t \in Threads :
        \/ /\ \A u \in URLs : g_access[u] = 0
           /\ \E i \in Insts, d \in ConcData : StoreCall(t, i, d)
        \/ StoreIncr(t)
        \/ StoreBody(t)
        \/ StoreRecord(t)
        \/ /\ g_calls = <<>>
           /\ \E url \in HttpURLs : PageCall(t, url)
        \/ PageLookup(t)
        \/ PageFetch(t)
        \/ PageSetex(t)
SpecConc == InitOne /\ [][NextConc]_vars

Quiescent == \A t \in Threads : Ready(t)

\* ================================================================ claims
\* what the database holds under a list key / a string key right now
Log(k) == IF k \in DOMAIN db THEN db[k].val ELSE <<>>
Held(k) == IF k \in DOMAIN db THEN PyBytes(db[k].val) ELSE NoneVal

FinishedPage(t) == th[t].op = "get_page" /\ th[t].pc = "done"
FinishedStore(t) == th[t].op = "store" /\ th[t].pc = "done"
FinishedGet(t) == th[t].op = "get" /\ th[t].pc = "done"
FinishedReplay(t) == th[t].op = "replay" /\ th[t].pc = "done"

\* the lookup of t's get_page call found a page entry that an earlier
\* get_page call wrote less than expire seconds before
FoundLivePage(t) ==
    /\ th[t].cached # NoneVal
    /\ th[t].since >= 0
    /\ th[t].since < expire

\* C1: a get_page(u) call made while the page entry written by an earlier
\* get_page(u) is still within its TTL does not invoke the underlying fetch,
\* returns the body of that entry (whatever the body, the empty text
\* included), and leaves the access counter of u one higher than it found it.
C1_SecondCallWithinTtlHits ==
    \A t \in Threads :
        (FinishedPage(t) /\ FoundLivePage(t)) =>
            /\ ~th[t].fetched
            /\ th[t].ret = DecodeUtf8(th[t].cached)
            /\ CounterValue(db, CountKey(th[t].key)) = th[t].cnt0 + 1

\* C2 (as claimed): after N store calls on one Cache instance, whatever else
\* happened in between, the counter of Cache.store equals N.
C2_CounterEqualsCallsOnInstance ==
    Quiescent =>
        \A i \in 1..ninst : CounterValue(db, QualName) = g_storeCalls[i]

\* C2 (amended): the counter of Cache.store equals the number of store calls
\* made, on any Cache instance, since the most recent Cache construction;
\* get, replay and get_page calls in between do not change it.
C2_CounterEqualsCallsSinceFlush ==
    Quiescent => CounterValue(db, QualName) = Len(g_calls)

C2_Witness ==
    /\ Quiescent
    /\ ninst = 2
    /\ g_storeCalls[1] = 1
    /\ Len(g_calls) = 1
    /\ CounterValue(db, QualName) = 1
    /\ \E u \in URLs : g_access[u] = 1

AllReturned == \A j \in 1..Len(g_calls) : g_calls[j].ret.ty = "str"

C4_ReplayCountsPairs ==
    \A t \in Threads :
        FinishedReplay(t) =>
            /\ th[t].exc = ""
            /\ th[t].printed[1] =
                   Header(Min(Len(Log(InputsKey)), Len(Log(OutputsKey))))

\* C4 (amended): replay reports len(inputs) as the call count, so a call
\* whose inner store failed is counted; it prints one line per pair up to
\* the shorter log and does not fail.
C4_ReplayCountsInputs ==
    \A t \in Threads :
        FinishedReplay(t) =>
            /\ th[t].exc = ""
            /\ th[t].printed[1] = Header(Len(Log(InputsKey)))
            /\ Len(th[t].printed) =
                   1 + Min(Len(Log(InputsKey)), Len(Log(OutputsKey)))

C4_Witness ==
    \E t \in Threads :
        /\ FinishedReplay(t)
        /\ Len(Log(InputsKey)) = 2
        /\ Len(Log(OutputsKey)) = 1
        /\ Len(th[t].printed) = 2

\* the underlying fetch of t's get_page call was made and did not answer
\* with a 2xx status: it raised (status 0) or answered with another status
FetchFailed(t) ==
    th[t].op = "get_page" /\ th[t].fetched /\ th[t].status \notin 200..299

\* C5 (as claimed): when the underlying fetch fails (it raises, or answers
\* with a non-2xx status) the call ends with the failure, no page entry is
\* written and the access counter stays incremented by one.
C5_FailedFetchPropagates ==
    \A t \in Threads :
        FetchFailed(t) =>
            /\ th[t].pc = "done"
            /\ th[t].exc # ""
            /\ ~Truthy(Held(th[t].key))
            /\ CounterValue(db, CountKey(th[t].key)) = th[t].cnt0 + 1

\* C5 (amended): when the underlying fetch raises, the call ends with that
\* exception, no page entry is written and the access counter stays
\* incremented by one; a non-2xx answer is not a failure, its body is
\* returned and cached like any other.
C5_RaisedFetchPropagates ==
    \A t \in Threads :
        /\ (FetchFailed(t) /\ th[t].status = 0) =>
              /\ th[t].pc = "done"
              /\ th[t].exc = "RequestException"
              /\ th[t].ret = NoneVal
              /\ ~Truthy(Held(th[t].key))
              /\ CounterValue(db, CountKey(th[t].key)) = th[t].cnt0 + 1
        /\ (FinishedPage(t) /\ th[t].fetched /\ th[t].status # 0) =>
              /\ th[t].exc = ""
              /\ th[t].ret = th[t].res

C5_Witness ==
    \E t \in Threads :
        /\ FetchFailed(t)
        /\ th[t].status = 0
        /\ th[t].key \in HttpURLs
        /\ th[t].cnt0 = 1

\* C6: every store call increments the counter of Cache.store exactly once,
\* before the wrapped method body runs, whether the body then succeeds or
\* fails; what the body returns or raises is what the caller gets.
C6_CountedOnceBeforeBody ==
    \A t \in Threads :
        th[t].op = "store" =>
            /\ th[t].pc = "count" =>
                  /\ CounterValue(db, QualName) = th[t].cnt0
                  /\ th[t].key = ""
            /\ th[t].pc = "body" =>
                  /\ CounterValue(db, QualName) = th[t].cnt0 + 1
                  /\ th[t].key = ""
            /\ th[t].key # "" => CounterValue(db, QualName) = th[t].cnt0 + 1
            /\ (th[t].pc = "done" /\ th[t].exc = "") =>
                  th[t].ret = PyStr(th[t].key)
            /\ (th[t].pc = "done" /\ ~Encodable(th[t].arg)) =>
                  th[t].exc = "DataError" /\ th[t].ret = NoneVal

C6_Witness ==
    \E t \in Threads :
        /\ FinishedStore(t)
        /\ th[t].exc = "DataError"
        /\ th[t].cnt0 = 1
        /\ CounterValue(db, QualName) = 2

\* C7: a store call appends the rendering of its arguments to the inputs
\* log before the wrapped method runs and appends the rendering of the
\* result to the outputs log only once the method has returned; when the
\* method raises, the inputs log has grown by one entry and the outputs log
\* is as it was.
C7_InputBeforeOutputAfter ==
    \A t \in Threads :
        th[t].op = "store" =>
            /\ Log(InputsKey) = Append(th[t].in0, StrArgs(th[t].arg))
            /\ th[t].pc \in {"count", "body", "record"} =>
                  Log(OutputsKey) = th[t].out0
            /\ (th[t].pc = "done" /\ th[t].exc = "") =>
                  Log(OutputsKey) = Append(th[t].out0, th[t].key)
            /\ (th[t].pc = "done" /\ th[t].exc # "") =>
                  Log(OutputsKey) = th[t].out0

C7_Witness ==
    \E t \in Threads :
        /\ FinishedStore(t)
        /\ th[t].exc = "DataError"
        /\ Len(th[t].in0) = 1
        /\ Len(Log(InputsKey)) = 2
        /\ Len(Log(OutputsKey)) = 1

\* the store calls since the last flush that returned key k
StoredAs(k) == {j \in 1..Len(g_calls) : g_calls[j].ret = PyStr(k)}

\* C8 (as claimed): get(store(v)) returns v, and store returns the key under
\* which v was written.
C8_GetReturnsValue ==
    \A t \in Threads :
        (FinishedGet(t) /\ th[t].fn = "none") =>
            \A j \in StoredAs(th[t].key) : th[t].ret = g_calls[j].data

\* C8 (amended): get(store(v)) returns the bytes the client wrote for v (the
\* UTF-8 text of a str, the decimal text of an int, v itself when v is
\* bytes), so it equals v only when v is bytes; store returns the key under
\* which those bytes were written.
C8_GetReturnsEncodedValue ==
    \A t \in Threads :
        /\ (FinishedGet(t) /\ th[t].fn = "none") =>
              \A j \in StoredAs(th[t].key) :
                  /\ th[t].exc = ""
                  /\ th[t].ret = PyBytes(g_calls[j].data.v)
                  /\ g_calls[j].data.ty = "bytes" => th[t].ret = g_calls[j].data
        /\ (FinishedStore(t) /\ th[t].exc = "") =>
              /\ th[t].ret.ty = "str"
              /\ Held(th[t].ret.v) = PyBytes(th[t].arg.v)

C8_Witness ==
    \E t \in Threads :
        /\ FinishedGet(t)
        /\ th[t].fn = "none"
        /\ \E j \in StoredAs(th[t].key) : g_calls[j].data = PyInt("42")
        /\ th[t].ret = PyBytes("42")

\* C9 (as claimed): a get_page(u) call made more than expire seconds after
\* the moment of the get_page(u) call that wrote the page entry invokes the
\* underlying fetch again.
C9_ExpiresAfterCall ==
    \A t \in Threads :
        (FinishedPage(t) /\ th[t].age > expire) => th[t].fetched

\* C9 (amended): the TTL runs from the moment the entry is written, which
\* is after the underlying fetch has answered: a get_page(u) call whose
\* lookup comes expire seconds or more after that write finds no entry and
\* invokes the underlying fetch again, and a page entry that is returned
\* was written less than expire seconds before.
C9_ExpiresAfterWrite ==
    \A t \in Threads :
        FinishedPage(t) =>
            /\ th[t].since >= expire =>
                  th[t].cached = NoneVal /\ th[t].fetched
            /\ (th[t].since >= 0 /\ ~th[t].fetched /\ th[t].exc = "") =>
                  th[t].since < expire

C9_Witness ==
    \E t \in Threads :
        /\ FinishedPage(t)
        /\ th[t].since >= expire
        /\ th[t].fetched
        /\ th[t].exc = ""

\* key k has not been written since the last flush (or ever)
NeverWritten(k) ==
    \/ k \in KeyPool /\ StoredAs(k) = {}
    \/ k \in {QualName, InputsKey} /\ g_calls = <<>>

\* C10: get on a key that was never written, or on any key after a flush,
\* returns None and raises nothing, with or without a decoder; the decoder
\* is not applied, and no get changes the database.
C10_AbsentIsNone ==
    /\ [](\A t \in Threads :
            (FinishedGet(t) /\ NeverWritten(th[t].key)) =>
                /\ th[t].ret = NoneVal
                /\ th[t].exc = ""
                /\ ~th[t].applied)
    /\ [][\A t \in Threads :
            (th'[t].op = "get" /\ th'[t] # th[t]) => db' = db]_vars

C10_Witness ==
    \E t \in Threads :
        /\ FinishedGet(t)
        /\ th[t].fn = "int"
        /\ th[t].key \in issued
        /\ NeverWritten(th[t].key)
        /\ th[t].ret = NoneVal

FinishedInit(t) == th[t].op = "init" /\ th[t].pc = "done"

\* C11: replay after N store calls that all returned prints the count N and
\* then, for i = 1..N in call order, the i-th recorded input with the i-th
\* recorded output, verbatim; replay changes nothing in the database.
C11_ReplayReproducesCalls ==
    /\ [](\A t \in Threads :
            (FinishedReplay(t) /\ AllReturned) =>
                /\ Len(th[t].printed) = 1 + Len(g_calls)
                /\ th[t].printed[1] =
                       "Cache.store was called " \o ToString(Len(g_calls))
                           \o " times:"
                /\ \A j \in 1..Len(g_calls) :
                       th[t].printed[1 + j] =
                           "Cache.store(*" \o StrArgs(g_calls[j].data)
                               \o ") -> " \o g_calls[j].ret.v)
    /\ [][\A t \in Threads :
            (th'[t].op = "replay" /\ th'[t] # th[t]) => db' = db]_vars

C11_Witness ==
    \E t \in Threads :
        /\ FinishedReplay(t)
        /\ AllReturned
        /\ Len(g_calls) = 2
        /\ g_calls[1].data # g_calls[2].data
        /\ Len(th[t].printed) = 3

\* C12: right after a Cache instance is constructed the database is empty:
\* no stored value, no counter, no history log, no cached page is left.
C12_ConstructionFlushes ==
    \A t \in Threads : FinishedInit(t) => DOMAIN db = {}

C12_Witness ==
    \E t \in Threads :
        /\ FinishedInit(t)
        /\ ninst = 2
        /\ g_storeCalls[1] = 2
        /\ issued # {}
        /\ DOMAIN db = {}

\* C13: get with the int decoder on a key whose stored bytes are not a
\* decimal integer ("abc") raises ValueError to the caller, on a key storing
\* "42" it returns the integer 42; get with any decoder leaves the database
\* as it was.
C13_IntDecoder ==
    /\ [](\A t \in Threads :
            (FinishedGet(t) /\ th[t].fn = "int") =>
                \A j \in StoredAs(th[t].key) :
                    /\ g_calls[j].data.v = "abc" =>
                          th[t].exc = "ValueError" /\ th[t].ret = NoneVal
                    /\ g_calls[j].data.v = "42" =>
                          th[t].exc = "" /\ th[t].ret = PyInt("42"))
    /\ [][\A t \in Threads :
            (th'[t].op = "get" /\ th'[t].fn # "none" /\ th'[t] # th[t])
                => db' = db]_vars

C13_Witness ==
    \E t \in Threads :
        /\ FinishedGet(t)
        /\ th[t].fn = "int"
        /\ \E j \in StoredAs(th[t].key) : g_calls[j].data = PyStr("abc")
        /\ th[t].exc = "ValueError"

\* the events of t's store call that have happened so far
Counted(t) == CounterValue(db, QualName) = th[t].cnt0 + 1
InputLogged(t) == Log(InputsKey) = Append(th[t].in0, StrArgs(th[t].arg))
ValueWritten(t) == th[t].key # "" /\ Held(th[t].key) # NoneVal
OutputLogged(t) == Log(OutputsKey) = Append(th[t].out0, th[t].key)
KeyReturned(t) == th[t].pc = "done" /\ th[t].ret # NoneVal

\* C14 (as claimed): the counter wrapper is outermost, so within one store
\* call the order is counter increment, input append, value write, output
\* append, key returned: the input is never logged before the call is
\* counted.
C14_CounterOutermost ==
    \A t \in Threads :
        th[t].op = "store" =>
            /\ InputLogged(t) => Counted(t)
            /\ ValueWritten(t) => InputLogged(t)
            /\ OutputLogged(t) => ValueWritten(t)
            /\ KeyReturned(t) => OutputLogged(t)

\* C14 (amended): the history wrapper is outermost and the counter wrapper
\* innermost, so within one store call the order is input append, counter
\* increment, value write, output append, key returned.
C14_HistoryOutermost ==
    \A t \in Threads :
        th[t].op = "store" =>
            /\ InputLogged(t)
            /\ th[t].pc = "count" => ~Counted(t)
            /\ Counted(t) => InputLogged(t)
            /\ ValueWritten(t) => Counted(t)
            /\ OutputLogged(t) => ValueWritten(t)
            /\ KeyReturned(t) => OutputLogged(t)

C14_Witness ==
    \E t \in Threads :
        /\ th[t].op = "store"
        /\ th[t].pc = "count"
        /\ InputLogged(t)
        /\ ~Counted(t)
        /\ th[t].cnt0 = 1

\* C19: a store call writes under a key that no earlier store call drew,
\* and the values under the keys returned earlier stay as they were stored:
\* get(k) still gives the bytes first written for every key k returned
\* since the last flush.
C19_FreshKeysKeepValues ==
    /\ [](/\ \A j \in 1..Len(g_calls) :
                g_calls[j].ret.ty = "str" =>
                    Held(g_calls[j].ret.v) = PyBytes(g_calls[j].data.v)
          /\ \A j, l \in 1..Len(g_calls) :
                (j # l /\ g_calls[j].ret.ty = "str") =>
                    g_calls[j].ret # g_calls[l].ret)
    /\ [][\A t \in Threads :
            (th[t].pc = "body" /\ th'[t].pc # "body") =>
                (th'[t].key \notin issued /\ th'[t].key \in issued')]_vars

C19_Witness ==
    /\ Quiescent
    /\ AllReturned
    /\ Len(g_calls) = 2
    /\ g_calls[1].data # g_calls[2].data
    /\ Held(g_calls[1].ret.v) = PyBytes(g_calls[1].data.v)

\* t's finished get_page call was answered from the page entry
Hit(t) == FinishedPage(t) /\ th[t].exc = "" /\ ~th[t].fetched

\* C18: a cache hit is read-only on the page entry: it changes neither the
\* stored body nor the remaining time to live, so an entry expires expire
\* seconds after the miss that wrote it however many hits come in between;
\* only the write of a miss creates or refreshes a page entry.
C18_HitIsReadOnly ==
    /\ [](\A u \in HttpURLs :
            u \in DOMAIN db =>
                /\ g_page[u] # NoWrite
                /\ db[u].ttl = expire - g_page[u].since)
    /\ [][\A t \in Threads :
            (th[t].pc = "lookup" /\ th'[t].pc = "done" /\ th'[t].exc = "")
                => (db' = db /\ g_page' = g_page)]_vars
    /\ [][\A u \in HttpURLs :
            (/\ u \in DOMAIN db'
             /\ \/ u \notin DOMAIN db
                \/ db'[u].ttl > db[u].ttl
                \/ db'[u].val # db[u].val)
            => \E t \in Threads :
                  /\ th[t].pc = "setex" /\ th[t].key = u /\ th[t].fetched
                  /\ th'[t].pc = "done"]_vars

C18_Witness ==
    \E t \in Threads :
        /\ Hit(t)
        /\ th[t].key \in HttpURLs
        /\ th[t].since = 3
        /\ g_access[th[t].key] = 2
        /\ th[t].key \in DOMAIN db
        /\ db[th[t].key].ttl = expire - 3

\* C20 (as claimed): page entries and counters never collide: every
\* get_page(v) that returns, v = "count:" + u included, returns a body that
\* the HTTP request for v produced, in this call or in the call that wrote
\* the entry it hit, no counter is overwritten with a page body, and every
\* counter holds the number of get_page calls for its URL.
C20_NamespacesDisjoint ==
    /\ \A t \in Threads :
          (FinishedPage(t) /\ th[t].exc = "") =>
              (th[t].fetched \/ th[t].since >= 0)
    /\ \A u \in URLs :
          /\ RedisIncrOk(db, CountKey(u))
          /\ CounterValue(db, CountKey(u)) = g_access[u]

\* callers that are inside store and have not yet run the increment
BeforeIncr == {t \in Threads : th[t].op = "store" /\ th[t].pc = "count"}

\* C15: under any interleaving of concurrent callers no counter update is
\* lost: the store counter equals the number of store calls that have run
\* their increment, and the access counter of u the number of get_page(u)
\* calls that have run theirs, so when all K callers have incremented the
\* counter has grown by exactly K.
C15_NoLostIncrement ==
    /\ CounterValue(db, QualName) = Len(g_calls) - Cardinality(BeforeIncr)
    /\ \A u \in HttpURLs : CounterValue(db, CountKey(u)) = g_access[u]

C15_Witness ==
    \E t1, t2 \in Threads :
        /\ t1 # t2
        /\ th[t1].op = "store" /\ th[t1].pc = "body"
        /\ th[t2].op = "store" /\ th[t2].pc = "body"
        /\ th[t1].cnt0 = th[t2].cnt0
        /\ CounterValue(db, QualName) = th[t1].cnt0 + 2

\* finished get_page(u) calls that missed, fetched and wrote the entry
Writers(u) ==
    {t \in Threads : /\ FinishedPage(t) /\ th[t].key = u
                     /\ th[t].fetched /\ th[t].exc = ""}

\* C16: two concurrent get_page(u) calls that both miss both fetch and both
\* write: when both are complete the access counter has grown by the two
\* calls, each call returned the body it fetched, and the page entry holds
\* the body written by whichever write came last.
C16_BothWriteLastWins ==
    \A u \in HttpURLs :
        /\ \A t \in Writers(u) : th[t].ret = th[t].res
        /\ (g_page[u].by \in Writers(u) /\ u \in DOMAIN db) =>
               db[u].val = th[g_page[u].by].res.v
        /\ \A t1, t2 \in Writers(u) :
               (t1 # t2 /\ th[t1].cached = NoneVal /\ th[t2].cached = NoneVal)
                   => /\ th[t1].cnt0 # th[t2].cnt0
                      /\ CounterValue(db, CountKey(u)) >= 2
                      /\ CounterValue(db, CountKey(u)) = g_access[u]
                      /\ u \in DOMAIN db

C16_Witness ==
    \E u \in HttpURLs : \E t1, t2 \in Writers(u) :
        /\ t1 # t2
        /\ th[t1].cached = NoneVal /\ th[t2].cached = NoneVal
        /\ th[t1].res # th[t2].res
        /\ g_access[u] = 2
        /\ CounterValue(db, CountKey(u)) = 2
        /\ g_page[u].by = t2
        /\ db[u].val = th[t2].res.v

\* number of entries of the list q that equal s
Occurrences(q, s) == Cardinality({j \in 1..Len(q) : q[j] = s})
Returned == {j \in 1..Len(g_calls) : g_calls[j].ret.ty = "str"}

\* C17: with overlapping store calls the two logs still gain one entry per
\* call: the inputs log has the argument of every call begun, in the order
\* the calls appended them, and the outputs log has the key of every call
\* that returned, once each; but the i-th output need not belong to the
\* call of the i-th input (C17_Witness is such a state).
C17_LogsGainOnePerCall ==
    /\ Len(Log(InputsKey)) = Len(g_calls)
    /\ \A j \in 1..Len(g_calls) :
          Log(InputsKey)[j] = StrArgs(g_calls[j].data)
    /\ Len(Log(OutputsKey)) = Cardinality(Returned)
    /\ \A j \in Returned : Occurrences(Log(OutputsKey), g_calls[j].ret.v) = 1

C17_Witness ==
    /\ Quiescent
    /\ AllReturned
    /\ Len(g_calls) = 2
    /\ Len(Log(OutputsKey)) = 2
    /\ \E j \in 1..Len(g_calls) : Log(OutputsKey)[j] # g_calls[j].ret.v

====
